---- MODULE Spec2Model ----
\* A model of csvlens' src/view.rs: SelectionDimension, Selection, RowsFilter,
\* ColumnsFilter and RowsView, with the reader (crate::csv) and the finder
\* (crate::find) modelled at their interface.
\*
\* Conventions
\*   Option<T>      None is <<>>, Some(x) is <<x>>.
\*   Vec<T>         a sequence; the positions the code stores (row numbers,
\*                  column numbers) are kept 0-based, as in the code.
\*   Result<()>     "Ok" or "Err"; "Panic" is an arithmetic-overflow panic.
\*   u64 / usize    naturals; every value of the model is far below 2^32, so
\*                  the `as usize` / `as u64` casts keep the value.
EXTENDS Integers, Sequences, FiniteSets

\* ---------------------------------------------------------------- bounds
\* Largest number of data rows the reader holds.
MaxData == 2
\* Largest window size passed to RowsView::new / set_num_rows.
MaxNumRows == 2
\* Largest offset passed to set_rows_from / ScrollTo, and cap on rows_from.
MaxRowsFrom == 3
\* Largest bound / index handed to a stand-alone SelectionDimension.
MaxBound == 3
\* Longest header list handed to ColumnsFilter::new on its own.
MaxHeaders == 3

\* The longest source and the largest window of the runs that only scroll
\* down.
DownMaxData == 6
DownMaxNumRows == 4

\* u64::MAX. TLC's integers are 32 bits wide, so the largest of them stands
\* for 2^64 - 1; no other value of the model comes near it.
U64Max == 2147483647

\* ------------------------------------------------------------- variables
VARIABLES
    reader,     \* RowsView.reader: the data source and what it knows
    view,       \* the RowsView's own fields
    last,       \* the last operation: name, inputs, result, fetches issued
    dim,        \* a stand-alone SelectionDimension
    dimLast,    \* the last operation on it, and the dimension before it
    cfIn,       \* the inputs handed to ColumnsFilter::new on its own
    cfOut       \* what it returned (None before the call)

vars == <<reader, view, last, dim, dimLast, cfIn, cfOut>>

\* ------------------------------------------------------------ primitives
None == <<>>
Some(x) == <<x>>
IsSome(o) == o # <<>>
Unwrap(o) == o[1]

Min(a, b) == IF a <= b THEN a ELSE b

\* u64::saturating_sub
SatSub(a, b) == IF a > b THEN a - b ELSE 0

\* u64::saturating_add
SatAdd(a, b) == IF a >= U64Max - b THEN U64Max ELSE a + b

\* u64 `a - b` in a build without overflow checks: wraps modulo 2^64.
WrappingSub(a, b) == IF a >= b THEN a - b ELSE U64Max - (b - a) + 1

\* The ascending sequence of the members of a set of naturals.
RECURSIVE SortedSeq(_)
SortedSeq(S) ==
    IF S = {} THEN <<>>
    ELSE LET m == CHOOSE x \in S : \A y \in S : x <= y
         IN  <<m>> \o SortedSeq(S \ {m})

\* ------------------------------------------------- collaborators (csv, find)
\* The header names the data source may carry.
HeaderNames == {"id", "name", "amount"}

\* The headers of the data source the view browses.
ReaderHeaders == <<"id", "name">>

\* Row: the record at 0-based position i of a source with n columns; field j
\* (0-based) is written <<i, j>>.
Row(i, n) == [fields |-> [j \in 1..n |-> <<i, j - 1>>]]

\* Row::subset: the fields at the given 0-based column positions, in order.
Row_subset(row, indices) ==
    [fields |-> [k \in 1..Len(indices) |-> row.fields[indices[k] + 1]]]

\* CsvLensReader::get_rows: the rows at [rows_from, rows_from + num_rows),
\* as far as the data goes.
get_rows(rd, rows_from, num_rows) ==
    LET cnt == SatSub(Min(rows_from + num_rows, rd.num_data), rows_from)
    IN  [k \in 1..cnt |-> Row(rows_from + k - 1, Len(rd.headers))]

\* CsvLensReader::get_rows_for_indices: the rows at the given positions,
\* in the order given.
get_rows_for_indices(rd, indices) ==
    [k \in 1..Len(indices) |-> Row(indices[k], Len(rd.headers))]

\* Finder::count: the number of matches. A finder is the ascending sequence
\* of the row positions it found.
Finder_count(finder) == Len(finder)

\* Finder::get_subset_found: the matches numbered
\* [rows_from, rows_from + num_rows) among all matches.
get_subset_found(finder, rows_from, num_rows) ==
    LET hi == Min(rows_from + num_rows, Len(finder))
    IN  IF rows_from >= hi THEN <<>>
        ELSE [k \in 1..(hi - rows_from) |-> finder[rows_from + k]]

\* Regex::is_match: a pattern is the set of header names it matches.
is_match(pattern, header) == header \in pattern

\* ------------------------------------------------------------ RowsFilter
RowsFilter_new(finder, rows_from, num_rows) ==
    [indices |-> get_subset_found(finder, rows_from, num_rows),
     total   |-> Finder_count(finder)]

\* ---------------------------------------------------------- ColumnsFilter
\* The loop of ColumnsFilter::new: the 0-based positions, in order, of the
\* headers the pattern matches.
RECURSIVE MatchingIndices(_, _, _)
MatchingIndices(pattern, headers, i) ==
    IF i >= Len(headers) THEN <<>>
    ELSE (IF is_match(pattern, headers[i + 1]) THEN <<i>> ELSE <<>>)
         \o MatchingIndices(pattern, headers, i + 1)

\* ColumnsFilter::new without the fallback to all columns when nothing matches.
ColumnsFilter_new_no_fallback(pattern, headers) ==
    LET matched == MatchingIndices(pattern, headers, 0)
    IN  [pattern |-> pattern,
         indices |-> matched,
         filtered_headers |->
             [k \in 1..Len(matched) |-> headers[matched[k] + 1]],
         num_columns_before_filter |-> Len(headers),
         disabled_because_no_match |-> (matched = <<>>)]

ColumnsFilter_new(pattern, headers) ==
    LET matched == MatchingIndices(pattern, headers, 0)
        indices == IF matched = <<>>
                   THEN [k \in 1..Len(headers) |-> k - 1]
                   ELSE matched
    IN  [pattern |-> pattern,
         indices |-> indices,
         filtered_headers |->
             IF matched = <<>> THEN headers
             ELSE [k \in 1..Len(matched) |-> headers[matched[k] + 1]],
         num_columns_before_filter |-> Len(headers),
         disabled_because_no_match |-> (matched = <<>>)]

num_filtered(cf) == Len(cf.indices)

num_original(cf) == cf.num_columns_before_filter

\* ------------------------------------------------------ SelectionDimension
\* set_index without the clamp to bound - 1.
set_index_unclamped(d, index) == [d EXCEPT !.index = Some(index)]

set_index(d, index) ==
    [d EXCEPT !.index = Some(Min(index, SatSub(d.bound, 1)))]

\* set_bound that selects index 0 when nothing is selected yet.
set_bound_selecting(d, bound) ==
    LET d1 == [d EXCEPT !.bound = bound]
    IN  set_index(d1, IF IsSome(d1.index) THEN Unwrap(d1.index) ELSE 0)

\* set_bound that drops the index when the bound is 0.
set_bound_clearing(d, bound) ==
    IF bound = 0 THEN [index |-> None, bound |-> 0]
    ELSE LET d1 == [d EXCEPT !.bound = bound]
         IN  IF IsSome(d1.index) THEN set_index(d1, Unwrap(d1.index)) ELSE d1

set_bound(d, bound) ==
    LET d1 == [d EXCEPT !.bound = bound]
    IN  IF IsSome(d1.index) THEN set_index(d1, Unwrap(d1.index)) ELSE d1

select_next(d) ==
    IF IsSome(d.index) THEN set_index(d, SatAdd(Unwrap(d.index), 1)) ELSE d

select_previous(d) ==
    IF IsSome(d.index) THEN set_index(d, SatSub(Unwrap(d.index), 1)) ELSE d

\* select_first that leaves the index where it is.
select_first_keeps(d) == d

select_first(d) ==
    IF IsSome(d.index) THEN set_index(d, 0) ELSE d

select_last(d) ==
    IF IsSome(d.index) THEN set_index(d, SatSub(d.bound, 1)) ELSE d

is_selected(d, i) == IsSome(d.index) /\ Unwrap(d.index) = i

\* --------------------------------------------------------------- Selection
Selection_default(row_bound) ==
    [row    |-> [index |-> Some(0), bound |-> row_bound],
     column |-> [index |-> None, bound |-> 0]]

selection_type(s) ==
    IF IsSome(s.row.index) /\ IsSome(s.column.index) THEN "Cell"
    ELSE IF IsSome(s.row.index) THEN "Row"
    ELSE IF IsSome(s.column.index) THEN "Column"
    ELSE "None"

\* ---------------------------------------------------------------- RowsView
\* What an operation returns: the view it leaves, its Result, and the number
\* of fetches it issued to the reader.
Ret(v, result, fetches) == [view |-> v, result |-> result, fetches |-> fetches]

\* RowsView::new, when its fetch succeeds.
RowsView_new(rd, num_rows) ==
    [rows           |-> get_rows(rd, 0, num_rows),
     num_rows       |-> num_rows,
     rows_from      |-> 0,
     filter         |-> None,
     columns_filter |-> None,
     selection      |-> Selection_default(num_rows),
     elapsed        |-> None]

headers(rd, v) ==
    IF IsSome(v.columns_filter)
    THEN Unwrap(v.columns_filter).filtered_headers
    ELSE rd.headers

get_total(rd, v) ==
    IF IsSome(v.filter) THEN Some(Unwrap(v.filter).total)
    ELSE IF IsSome(rd.total_line_numbers) THEN rd.total_line_numbers
    ELSE rd.total_line_numbers_approx

\* bottom_rows_from with a wrapping subtraction in place of saturating_sub.
bottom_rows_from_wrapping(rd, v) ==
    LET total == get_total(rd, v)
    IN  IF IsSome(total) THEN Some(WrappingSub(Unwrap(total), v.num_rows))
        ELSE None

bottom_rows_from(rd, v) ==
    LET total == get_total(rd, v)
    IN  IF IsSome(total) THEN Some(SatSub(Unwrap(total), v.num_rows)) ELSE None

selected_offset(v) ==
    IF IsSome(v.selection.row.index)
    THEN Some(SatAdd(Unwrap(v.selection.row.index), v.rows_from))
    ELSE None

in_view(v, row_index) ==
    /\ row_index >= v.rows_from
    /\ row_index < SatAdd(v.rows_from, v.num_rows)

subset_columns(rows, indices) ==
    [k \in 1..Len(rows) |-> Row_subset(rows[k], indices)]

\* do_get_rows. fetch is what the reader's fetch does: None when it fails,
\* Some(t) when it succeeds and is measured to take t microseconds. A failed
\* fetch returns at the `?`, before anything is assigned.
do_get_rows(rd, v, fetch) ==
    IF fetch = None THEN Ret(v, "Err", 1)
    ELSE
    LET fetched == IF IsSome(v.filter)
                   THEN get_rows_for_indices(rd, Unwrap(v.filter).indices)
                   ELSE get_rows(rd, v.rows_from, v.num_rows)
        rows == IF IsSome(v.columns_filter)
                THEN subset_columns(fetched, Unwrap(v.columns_filter).indices)
                ELSE fetched
        row  == set_bound(v.selection.row, Len(rows))
        col  == IF rows # <<>>
                THEN set_bound(v.selection.column, Len(rows[1].fields))
                ELSE v.selection.column
    IN  Ret([v EXCEPT !.rows = rows,
                      !.elapsed = Some(Unwrap(fetch)),
                      !.selection = [row |-> row, column |-> col]],
            "Ok", 1)

set_num_rows(rd, v, num_rows, fetch) ==
    IF num_rows = v.num_rows THEN Ret(v, "Ok", 0)
    ELSE do_get_rows(rd, [v EXCEPT !.num_rows = num_rows], fetch)

\* set_filter that reloads whether or not the indices changed.
set_filter_always_reloads(rd, v, finder, fetch) ==
    do_get_rows(rd,
        [v EXCEPT !.filter =
            Some(RowsFilter_new(finder, v.rows_from, v.num_rows))],
        fetch)

set_filter(rd, v, finder, fetch) ==
    LET filter == RowsFilter_new(finder, v.rows_from, v.num_rows)
        needs_reload ==
            ~(IsSome(v.filter) /\ Unwrap(v.filter).indices = filter.indices)
        v1 == [v EXCEPT !.filter = Some(filter)]
    IN  IF needs_reload THEN do_get_rows(rd, v1, fetch)
        ELSE Ret(v1, "Ok", 0)

is_filter(v) == IsSome(v.filter)

\* reset_filter that reloads even when no filter is set.
reset_filter_always_reloads(rd, v, fetch) ==
    do_get_rows(rd, [v EXCEPT !.filter = None], fetch)

reset_filter(rd, v, fetch) ==
    IF ~is_filter(v) THEN Ret(v, "Ok", 0)
    ELSE do_get_rows(rd, [v EXCEPT !.filter = None], fetch)

set_columns_filter(rd, v, target, fetch) ==
    do_get_rows(rd,
        [v EXCEPT !.columns_filter = Some(ColumnsFilter_new(target, rd.headers))],
        fetch)

reset_columns_filter(rd, v, fetch) ==
    do_get_rows(rd, [v EXCEPT !.columns_filter = None], fetch)

\* set_rows_from that takes the requested offset without clamping it.
set_rows_from_unclamped(rd, v, rows_from_, fetch) ==
    IF rows_from_ = v.rows_from THEN Ret(v, "Ok", 0)
    ELSE do_get_rows(rd, [v EXCEPT !.rows_from = rows_from_], fetch)

set_rows_from(rd, v, rows_from_, fetch) ==
    LET bottom == bottom_rows_from(rd, v)
        rows_from == IF IsSome(bottom) THEN Min(rows_from_, Unwrap(bottom))
                     ELSE rows_from_
    IN  IF rows_from = v.rows_from THEN Ret(v, "Ok", 0)
        ELSE do_get_rows(rd, [v EXCEPT !.rows_from = rows_from], fetch)

\* increase_rows_from that assigns the new offset without set_rows_from's clamp.
increase_rows_from_unclamped(rd, v, delta, fetch) ==
    do_get_rows(rd, [v EXCEPT !.rows_from = SatAdd(@, delta)], fetch)

increase_rows_from(rd, v, delta, fetch) ==
    set_rows_from(rd, v, SatAdd(v.rows_from, delta), fetch)

\* decrease_rows_from that assigns the new offset without set_rows_from's clamp.
decrease_rows_from_unclamped(rd, v, delta, fetch) ==
    IF SatSub(v.rows_from, delta) = v.rows_from THEN Ret(v, "Ok", 0)
    ELSE do_get_rows(rd, [v EXCEPT !.rows_from = SatSub(@, delta)], fetch)

decrease_rows_from(rd, v, delta, fetch) ==
    set_rows_from(rd, v, SatSub(v.rows_from, delta), fetch)

\* The tail of an arm that leaves the row selection where it was.
ThenSelectNothing(r) == r

\* The tail of a handle_control arm that ends in select_first: the `?`
\* returns the error as it is, and otherwise the row selection is moved.
ThenSelectFirst(r) ==
    IF r.result # "Ok" THEN r
    ELSE Ret([r.view EXCEPT !.selection.row = select_first(@)], "Ok", r.fetches)

\* The same for the arm that ends in select_last.
ThenSelectLast(r) ==
    IF r.result # "Ok" THEN r
    ELSE Ret([r.view EXCEPT !.selection.row = select_last(@)], "Ok", r.fetches)

\* The commands of crate::input::Control the view acts on; every other
\* command ("Other") falls to the `_ => {}` arm.
ControlNames ==
    {"ScrollDown", "ScrollPageDown", "ScrollUp", "ScrollPageUp", "ScrollTop",
     "ScrollBottom", "ScrollTo", "Other"}

\* handle_control. n is the argument of ScrollTo(n). checked: whether the
\* build checks arithmetic overflow, in which case `self.num_rows - 1`
\* panics for num_rows = 0, and otherwise wraps.
handle_control(rd, v, control, n, checked, fetch) ==
    CASE control = "ScrollDown" ->
            IF IsSome(v.selection.row.index)
            THEN IF v.num_rows = 0 /\ checked THEN Ret(v, "Panic", 0)
                 ELSE IF Unwrap(v.selection.row.index) = WrappingSub(v.num_rows, 1)
                 THEN increase_rows_from(rd, v, 1, fetch)
                 ELSE Ret([v EXCEPT !.selection.row = select_next(@)], "Ok", 0)
            ELSE increase_rows_from(rd, v, 1, fetch)
      [] control = "ScrollPageDown" ->
            ThenSelectFirst(increase_rows_from(rd, v, v.num_rows, fetch))
      [] control = "ScrollUp" ->
            IF IsSome(v.selection.row.index)
            THEN IF Unwrap(v.selection.row.index) = 0
                 THEN decrease_rows_from(rd, v, 1, fetch)
                 ELSE Ret([v EXCEPT !.selection.row = select_previous(@)], "Ok", 0)
            ELSE decrease_rows_from(rd, v, 1, fetch)
      [] control = "ScrollPageUp" ->
            ThenSelectFirst(decrease_rows_from(rd, v, v.num_rows, fetch))
      [] control = "ScrollTop" ->
            ThenSelectFirst(set_rows_from(rd, v, 0, fetch))
      [] control = "ScrollBottom" ->
            LET total == get_total(rd, v)
                r == IF IsSome(total)
                     THEN set_rows_from(rd, v, SatSub(Unwrap(total), v.num_rows),
                                        fetch)
                     ELSE Ret(v, "Ok", 0)
            IN  ThenSelectLast(r)
      [] control = "ScrollTo" ->
            LET bottom == bottom_rows_from(rd, v)
                want == SatSub(n, 1)
                rows_from == IF IsSome(bottom) THEN Min(want, Unwrap(bottom))
                             ELSE want
            IN  ThenSelectFirst(set_rows_from(rd, v, rows_from, fetch))
      [] OTHER -> Ret(v, "Ok", 0)

\* ------------------------------------------------------------ the machine
\* What the reader may know of its length: the exact line count (which then
\* takes precedence over the estimate), only an estimate (here one too many),
\* or nothing.
Knowledge(n) ==
    {<<Some(n), Some(n + 1)>>, <<None, Some(n + 1)>>, <<None, None>>}

Readers ==
    UNION {{[num_data |-> n, headers |-> ReaderHeaders,
             total_line_numbers |-> k[1],
             total_line_numbers_approx |-> k[2]] : k \in Knowledge(n)} :
           n \in 0..MaxData}

\* The finders over a reader: any ascending sequence of its row positions.
Finders(rd) == {SortedSeq(S) : S \in SUBSET (0..(rd.num_data - 1))}

\* The column patterns handed to the view: one that matches no header of the
\* reader, one that matches its second header.
Patterns == {{"amount"}, {"name"}}

\* What a fetch may do: fail, or succeed and be measured to take some
\* microseconds.
Fetches == {None, Some(3)}

\* The record of an operation: its name, the command and number handed to
\* it, the finder the caller handed to set_filter last (the view keeps only
\* the RowsFilter built from it; reset_filter drops it), the total the view
\* reported when the operation was called, its Result and the number of
\* fetches it issued.
Op(name, control, n, finder, before, r) ==
    [op |-> name, control |-> control, n |-> n, finder |-> finder,
     before |-> before, result |-> r.result, fetches |-> r.fetches]

\* The stand-alone dimension and filter while the view is the one running.
IdleDim == [index |-> None, bound |-> 0]

IdleDimLast == [op |-> "idle", arg |-> 0, before |-> IdleDim]

IdleCfIn == [pattern |-> {}, headers |-> <<>>]

\* The view while a stand-alone dimension or filter is the one running.
IdleReader ==
    [num_data |-> 0, headers |-> <<>>, total_line_numbers |-> None,
     total_line_numbers_approx |-> None]

IdleLast == [op |-> "idle", control |-> "", n |-> 0, finder |-> <<>>,
             before |-> None, result |-> "Ok", fetches |-> 0]

\* The state after RowsView::new(reader, num_rows) returned Ok.
Init ==
    /\ reader \in Readers
    /\ \E num_rows \in 0..MaxNumRows :
          /\ view = RowsView_new(reader, num_rows)
          /\ last = Op("new", "", num_rows, <<>>, None, Ret(view, "Ok", 1))
    /\ dim = IdleDim
    /\ dimLast = IdleDimLast
    /\ cfIn = IdleCfIn
    /\ cfOut = None

\* An operation returned r: the view is what it left. The caller hands an
\* error on with `?`, so a session is followed up to its first error or
\* panic; rows_from is kept within the model's cap.
Apply(name, control, n, finder, r) ==
    /\ last.result = "Ok"
    /\ r.view.rows_from <= MaxRowsFrom
    /\ view' = r.view
    /\ last' = Op(name, control, n, finder, get_total(reader, view), r)
    /\ UNCHANGED <<reader, dim, dimLast, cfIn, cfOut>>

SetNumRows ==
    \E n \in 0..MaxNumRows, fetch \in Fetches :
        Apply("set_num_rows", "", n, last.finder,
              set_num_rows(reader, view, n, fetch))

SetRowsFrom ==
    \E n \in 0..MaxRowsFrom, fetch \in Fetches :
        Apply("set_rows_from", "", n, last.finder,
              set_rows_from(reader, view, n, fetch))

SetFilter ==
    \E finder \in Finders(reader), fetch \in Fetches :
        Apply("set_filter", "", 0, finder,
              set_filter(reader, view, finder, fetch))

ResetFilter ==
    \E fetch \in Fetches :
        Apply("reset_filter", "", 0, <<>>,
              reset_filter(reader, view, fetch))

SetColumnsFilter ==
    \E target \in Patterns, fetch \in Fetches :
        Apply("set_columns_filter", "", 0, last.finder,
              set_columns_filter(reader, view, target, fetch))

ResetColumnsFilter ==
    \E fetch \in Fetches :
        Apply("reset_columns_filter", "", 0, last.finder,
              reset_columns_filter(reader, view, fetch))

\* handle_control with a command that carries no argument. Whether the build
\* checks overflow matters to `num_rows - 1` alone.
HandleControl ==
    \E control \in ControlNames \ {"ScrollTo"}, fetch \in Fetches :
        \E checked \in (IF control = "ScrollDown" /\ view.num_rows = 0
                        THEN BOOLEAN ELSE {FALSE}) :
            Apply("handle_control", control, 0, last.finder,
                  handle_control(reader, view, control, 0, checked, fetch))

HandleScrollTo ==
    \E n \in 0..(MaxRowsFrom + 1), fetch \in Fetches :
        Apply("handle_control", "ScrollTo", n, last.finder,
              handle_control(reader, view, "ScrollTo", n, FALSE, fetch))

Next ==
    \/ SetNumRows
    \/ SetRowsFrom
    \/ SetFilter
    \/ ResetFilter
    \/ SetColumnsFilter
    \/ ResetColumnsFilter
    \/ HandleControl
    \/ HandleScrollTo

Spec == Init /\ [][Next]_vars

\* ------------------------------------- a SelectionDimension on its own
\* The dimensions Selection::default builds: a row dimension over any bound,
\* and the column dimension.
DimInit ==
    /\ reader = IdleReader
    /\ view = RowsView_new(IdleReader, 0)
    /\ last = IdleLast
    /\ \E row_bound \in 0..MaxBound :
          dim \in {Selection_default(row_bound).row,
                   Selection_default(row_bound).column}
    /\ dimLast = [op |-> "default", arg |-> dim.bound, before |-> dim]
    /\ cfIn = IdleCfIn
    /\ cfOut = None

DimApply(name, arg, d) ==
    /\ dim' = d
    /\ dimLast' = [op |-> name, arg |-> arg, before |-> dim]
    /\ UNCHANGED <<reader, view, last, cfIn, cfOut>>

DimSetIndex ==
    \E index \in 0..(MaxBound + 1) :
        DimApply("set_index", index, set_index(dim, index))

DimSetBound ==
    \E bound \in 0..MaxBound : DimApply("set_bound", bound, set_bound(dim, bound))

DimSelectNext == DimApply("select_next", 0, select_next(dim))

DimSelectPrevious == DimApply("select_previous", 0, select_previous(dim))

DimSelectFirst == DimApply("select_first", 0, select_first(dim))

DimSelectLast == DimApply("select_last", 0, select_last(dim))

DimNext ==
    \/ DimSetIndex
    \/ DimSetBound
    \/ DimSelectNext
    \/ DimSelectPrevious
    \/ DimSelectFirst
    \/ DimSelectLast

SpecDim == DimInit /\ [][DimNext]_vars

\* ------------------------------------------- ColumnsFilter::new on its own
\* Every header list of at most MaxHeaders names.
RECURSIVE HeaderLists(_)
HeaderLists(n) ==
    IF n = 0 THEN {<<>>}
    ELSE LET shorter == HeaderLists(n - 1)
         IN  shorter \cup {Append(h, x) : h \in shorter, x \in HeaderNames}

CfInit ==
    /\ reader = IdleReader
    /\ view = RowsView_new(IdleReader, 0)
    /\ last = IdleLast
    /\ dim = IdleDim
    /\ dimLast = IdleDimLast
    /\ cfIn = IdleCfIn
    /\ cfOut = None

CfNew ==
    \E pattern \in SUBSET HeaderNames, hs \in HeaderLists(MaxHeaders) :
        /\ cfIn' = [pattern |-> pattern, headers |-> hs]
        /\ cfOut' = Some(ColumnsFilter_new(pattern, hs))
        /\ UNCHANGED <<reader, view, last, dim, dimLast>>

CfNext == CfNew

SpecCf == CfInit /\ [][CfNext]_vars

\* ------------------------------------ ScrollDown repeated from a new view
\* The readers that know a total of at least one row, exact or estimated,
\* over sources long enough to be scrolled through.
DownReaders ==
    UNION {{[num_data |-> n, headers |-> ReaderHeaders,
             total_line_numbers |-> k[1],
             total_line_numbers_approx |-> k[2]] :
                k \in {kn \in Knowledge(n) : kn[2] # None}} :
           n \in 0..DownMaxData}

\* The state after RowsView::new over such a reader, with a window of at
\* least one row and no row filter.
DownInit ==
    /\ reader \in {rd \in DownReaders :
                     IF rd.total_line_numbers # None
                     THEN rd.total_line_numbers[1] >= 1
                     ELSE rd.total_line_numbers_approx[1] >= 1}
    /\ \E num_rows \in 1..DownMaxNumRows :
          /\ view = RowsView_new(reader, num_rows)
          /\ last = Op("new", "", num_rows, <<>>, None, Ret(view, "Ok", 1))
    /\ dim = IdleDim
    /\ dimLast = IdleDimLast
    /\ cfIn = IdleCfIn
    /\ cfOut = None

\* handle_control(ScrollDown) with a fetch that succeeds.
DownScrollDown ==
    LET r == handle_control(reader, view, "ScrollDown", 0, FALSE, Some(3))
    IN  /\ view' = r.view
        /\ last' = Op("handle_control", "ScrollDown", 0, <<>>,
                      get_total(reader, view), r)
        /\ UNCHANGED <<reader, dim, dimLast, cfIn, cfOut>>

DownNext == DownScrollDown

\* ScrollDown is issued again and again.
SpecDown == DownInit /\ [][DownNext]_vars /\ WF_vars(DownScrollDown)

\* ================================================================ claims
\* The total row count as the claims word it: the filter's total when a row
\* filter is active, else the exact line count, else the estimate, else none.
ClaimTotal(rd, v) ==
    IF v.filter # None THEN Some(v.filter[1].total)
    ELSE IF rd.total_line_numbers # None THEN rd.total_line_numbers
    ELSE IF rd.total_line_numbers_approx # None THEN rd.total_line_numbers_approx
    ELSE None

\* total - num_rows, saturating at 0.
ClaimBottom(total, num_rows) == IF total > num_rows THEN total - num_rows ELSE 0

\* The absolute number of the selected row: window start + row index.
ClaimOffset(v) == v.rows_from + v.selection.row.index[1]

\* C1 (as claimed): when the fetch fails inside a reload, the operation
\* returns the error and the view is exactly what it was before the call.
C1_FailedFetchLeavesViewUnchanged ==
    [][last'.result = "Err" => view' = view]_vars

\* C2: after a successful set_rows_from(n), rows_from = min(n, total - num_rows
\* saturating at 0) when a total is known, and n when none is.
C2_SetRowsFromClamps ==
    [][(last'.op = "set_rows_from" /\ last'.result = "Ok") =>
         LET total == ClaimTotal(reader, view)
         IN  view'.rows_from =
               IF total # None
               THEN Min(last'.n, ClaimBottom(total[1], view.num_rows))
               ELSE last'.n]_vars

\* C2 witness: set_rows_from(n) reloaded with n above the maximal offset, and
\* rows_from is that offset, total - num_rows > 0.
C2_Witness ==
    /\ last.op = "set_rows_from" /\ last.result = "Ok" /\ last.fetches = 1
    /\ last.before # None
    /\ view.rows_from >= 1
    /\ view.rows_from < last.n
    /\ view.rows_from = last.before[1] - view.num_rows

\* C3 (as claimed): with the row index on the last row of the window, a
\* successful ScrollDown advances rows_from by exactly 1 and leaves the row
\* index unchanged. Stated for a window that is full, so that the index is on
\* a materialized row.
C3_ScrollDownAtLastRowAdvances ==
    [][(/\ last'.op = "handle_control" /\ last'.control = "ScrollDown"
        /\ last'.result = "Ok"
        /\ view.num_rows >= 1
        /\ Len(view.rows) = view.num_rows
        /\ view.selection.row.index = Some(view.num_rows - 1)) =>
         /\ view'.rows_from = view.rows_from + 1
         /\ view'.selection.row.index = view.selection.row.index]_vars

\* C3 (amended): with the row index on the last row of the window, a
\* successful ScrollDown sets rows_from to min(rows_from + 1, total - num_rows
\* saturating at 0) when a total is known and to rows_from + 1 when none is;
\* the row index is unchanged when nothing is fetched and otherwise is
\* min(index, number of rows fetched - 1, saturating at 0).
C3_ScrollDownAtLastRowClamped ==
    [][(/\ last'.op = "handle_control" /\ last'.control = "ScrollDown"
        /\ last'.result = "Ok"
        /\ view.num_rows >= 1
        /\ view.selection.row.index = Some(view.num_rows - 1)) =>
         LET total == ClaimTotal(reader, view)
             i == view.selection.row.index[1]
             n == Len(view'.rows)
         IN  /\ view'.rows_from =
                  IF total # None
                  THEN Min(view.rows_from + 1,
                           ClaimBottom(total[1], view.num_rows))
                  ELSE view.rows_from + 1
             /\ view'.num_rows = view.num_rows
             /\ view'.selection.row.index =
                  IF last'.fetches = 0 THEN Some(i)
                  ELSE Some(Min(i, IF n > 0 THEN n - 1 ELSE 0))]_vars

\* C3 witness: ScrollDown on the last row of a full window moved the window
\* (one fetch) and the row index is still the last row.
C3_Witness ==
    /\ last.op = "handle_control" /\ last.control = "ScrollDown"
    /\ last.result = "Ok" /\ last.fetches = 1
    /\ last.before # None
    /\ view.num_rows >= 1
    /\ view.rows_from >= 1
    /\ Len(view.rows) = view.num_rows
    /\ view.selection.row.index = Some(view.num_rows - 1)

\* C4 (as claimed): from a state with a known total T and window size W, a
\* successful ScrollBottom sets rows_from to T - W (0 when T < W) and selects
\* the last row: the row index is that of the last materialized row and
\* selected_offset() = T - 1. Stated for an exact line count, no row filter,
\* T >= 1 and W >= 1.
C4_ScrollBottomSelectsLastRow ==
    [][(/\ last'.op = "handle_control" /\ last'.control = "ScrollBottom"
        /\ last'.result = "Ok"
        /\ view.filter = None
        /\ reader.total_line_numbers # None
        /\ reader.total_line_numbers[1] >= 1
        /\ view.num_rows >= 1) =>
         LET T == reader.total_line_numbers[1]
         IN  /\ view'.rows_from = ClaimBottom(T, view.num_rows)
             /\ view'.selection.row.index = Some(Len(view'.rows) - 1)
             /\ ClaimOffset(view') = T - 1]_vars

\* C5: from a state with a known total, after a successful ScrollTo(n)
\* selected_offset() is n - 1 when n - 1 is below the maximal offset, and the
\* maximal offset otherwise (n - 1 saturates at 0, n being unsigned).
C5_ScrollToSelectedOffset ==
    [][(/\ last'.op = "handle_control" /\ last'.control = "ScrollTo"
        /\ last'.result = "Ok"
        /\ ClaimTotal(reader, view) # None) =>
         LET bottom == ClaimBottom(ClaimTotal(reader, view)[1], view.num_rows)
             want == IF last'.n >= 1 THEN last'.n - 1 ELSE 0
         IN  /\ view'.selection.row.index # None
             /\ ClaimOffset(view') = IF want < bottom THEN want ELSE bottom]_vars

\* C5 witness: ScrollTo(n), n >= 2, jumped (one fetch) to offset n - 1 under
\* a known total and the first row is selected.
C5_Witness ==
    /\ last.op = "handle_control" /\ last.control = "ScrollTo"
    /\ last.result = "Ok" /\ last.fetches = 1
    /\ last.before # None
    /\ last.n >= 2
    /\ view.rows_from = last.n - 1
    /\ view.selection.row.index = Some(0)

\* C6: set_filter with a finder whose match window for the current
\* rows_from / num_rows equals the active filter's indices issues no fetch and
\* leaves rows, elapsed and selection unchanged, yet replaces the filter, so
\* the total is the finder's count; when the windows differ, or no filter was
\* active, exactly one reload is issued.
C6_SetFilterReloadsOnlyOnNewIndices ==
    [][last'.op = "set_filter" =>
         LET finder == last'.finder
             hi == Min(view.rows_from + view.num_rows, Len(finder))
             window == SubSeq(finder, view.rows_from + 1, hi)
         IN  /\ view'.filter = Some([indices |-> window, total |-> Len(finder)])
             /\ ClaimTotal(reader, view') = Some(Len(finder))
             /\ IF view.filter # None /\ view.filter[1].indices = window
                THEN /\ last'.fetches = 0
                     /\ last'.result = "Ok"
                     /\ view'.rows = view.rows
                     /\ view'.elapsed = view.elapsed
                     /\ view'.selection = view.selection
                ELSE last'.fetches = 1]_vars

\* C6 witness: set_filter returned without a fetch while the match count
\* changed: the total reported before differs from the finder's count, which
\* the filter now holds, over a non-empty window.
C6_Witness ==
    /\ last.op = "set_filter" /\ last.result = "Ok" /\ last.fetches = 0
    /\ last.before # None
    /\ last.before[1] # Len(last.finder)
    /\ view.filter # None
    /\ view.filter[1].total = Len(last.finder)
    /\ view.filter[1].indices # <<>>
    /\ view.rows # <<>>

\* C7: under SpecDim, a present index of a dimension whose bound is above 0
\* lies in 0 .. bound - 1; select_next at bound - 1 and select_previous at 0
\* leave the index unchanged.
C7_IndexWithinBound ==
    /\ (dim.bound > 0 /\ dim.index # None) =>
           (0 <= dim.index[1] /\ dim.index[1] <= dim.bound - 1)
    /\ (/\ dimLast.op = "select_next"
        /\ dimLast.before.bound > 0
        /\ dimLast.before.index = Some(dimLast.before.bound - 1)) =>
           dim.index = dimLast.before.index
    /\ (/\ dimLast.op = "select_previous"
        /\ dimLast.before.bound > 0
        /\ dimLast.before.index = Some(0)) =>
           dim.index = dimLast.before.index

\* C7 witness: select_next was called at the last index of a dimension with
\* at least two positions, and the index stayed there.
C7_Witness ==
    /\ dimLast.op = "select_next"
    /\ dimLast.before.bound >= 2
    /\ dimLast.before.index = Some(dimLast.before.bound - 1)
    /\ dim.index = Some(dim.bound - 1)

\* C8 (as claimed): set_bound(0) on a dimension whose index is present makes
\* the index absent, and no reachable state has a present index with bound 0.
C8_ZeroBoundClearsIndex ==
    /\ (/\ dimLast.op = "set_bound" /\ dimLast.arg = 0
        /\ dimLast.before.index # None) => dim.index = None
    /\ ~(dim.index # None /\ dim.bound = 0)

\* C8 (amended): set_bound(0) on a dimension whose index is present leaves
\* the index present and makes it 0; whenever a present index meets bound 0,
\* the index is 0.
C8_ZeroBoundKeepsIndexAtZero ==
    /\ (/\ dimLast.op = "set_bound" /\ dimLast.arg = 0
        /\ dimLast.before.index # None) => dim.index = Some(0)
    /\ (dim.index # None /\ dim.bound = 0) => dim.index = Some(0)

\* C8 witness: set_bound(0) was called on a dimension whose index was
\* present and above 0; the index is now 0 under bound 0.
C8_Witness ==
    /\ dimLast.op = "set_bound" /\ dimLast.arg = 0
    /\ dimLast.before.index # None
    /\ dimLast.before.index[1] >= 1
    /\ dim.bound = 0
    /\ dim.index = Some(0)

\* C9: under SpecCf, ColumnsFilter::new yields, when some header matches, the
\* matching positions in ascending order and disabled_because_no_match =
\* false; when none matches, all positions 0 .. len - 1 and
\* disabled_because_no_match = true. In both cases filtered_headers[k] =
\* headers[indices[k]], the two lengths agree and num_original() is the
\* number of headers.
C9_ColumnsFilterNew ==
    cfOut # None =>
        LET cf == cfOut[1]
            hs == cfIn.headers
            matching == {i \in 0..(Len(hs) - 1) : hs[i + 1] \in cfIn.pattern}
            wanted == IF matching = {} THEN 0..(Len(hs) - 1) ELSE matching
        IN  /\ cf.disabled_because_no_match = (matching = {})
            /\ {cf.indices[k] : k \in 1..Len(cf.indices)} = wanted
            /\ Len(cf.indices) = Cardinality(wanted)
            /\ \A k \in 1..(Len(cf.indices) - 1) :
                   cf.indices[k] < cf.indices[k + 1]
            /\ Len(cf.filtered_headers) = Len(cf.indices)
            /\ \A k \in 1..Len(cf.indices) :
                   cf.filtered_headers[k] = hs[cf.indices[k] + 1]
            /\ num_filtered(cf) = Len(cf.indices)
            /\ num_original(cf) = Len(hs)

\* C9 witness: a filter was built from at least two headers of which some
\* match and some do not.
C9_Witness ==
    /\ cfOut # None
    /\ Len(cfIn.headers) >= 2
    /\ ~cfOut[1].disabled_because_no_match
    /\ Len(cfOut[1].indices) < Len(cfIn.headers)
    /\ Len(cfOut[1].indices) >= 1

\* C10 (as claimed): in every state reached through successful calls, a
\* present row selection index lies between 0 and num_rows - 1. Stated for
\* num_rows >= 1.
C10_RowIndexBelowNumRows ==
    (/\ last.result = "Ok"
     /\ view.num_rows >= 1
     /\ view.selection.row.index # None) =>
        (/\ 0 <= view.selection.row.index[1]
         /\ view.selection.row.index[1] <= view.num_rows - 1)

\* C11 (as claimed): once a reload has yielded at least one row, the column
\* index is present and below that row's field count, and selection_type()
\* is Cell.
C11_ColumnIndexAppearsAfterReload ==
    (/\ last.result = "Ok"
     /\ view.elapsed # None
     /\ view.rows # <<>>) =>
        /\ view.selection.column.index # None
        /\ view.selection.column.index[1] < Len(view.rows[1].fields)
        /\ selection_type(view.selection) = "Cell"

\* C11 (amended): the column index is absent at construction and stays
\* absent through every operation of the view; a successful reload that
\* yields at least one row sets the column bound to that row's field count,
\* and selection_type() stays Row.
C11_ColumnIndexStaysAbsent ==
    /\ view.selection.column.index = None
    /\ selection_type(view.selection) = "Row"
    /\ last.op = "new" => view.selection.column.bound = 0
    /\ (last.result = "Ok" /\ last.fetches = 1 /\ last.op # "new"
        /\ view.rows # <<>>) =>
           view.selection.column.bound = Len(view.rows[1].fields)

\* C11 witness: a reload yielded a row of two fields; the column bound is 2
\* and no column is selected.
C11_Witness ==
    /\ last.result = "Ok" /\ last.fetches = 1 /\ last.op # "new"
    /\ view.rows # <<>>
    /\ Len(view.rows[1].fields) = 2
    /\ view.selection.column.bound = 2
    /\ view.selection.column.index = None

\* C12 (as claimed): in every reachable state in which a total is known,
\* rows_from <= bottom_rows_from(), also after set_num_rows, set_filter and
\* reset_filter (stated for those calls, a window of at least one row and a
\* reader that knows its exact line count).
C12_RowsFromWithinBottom ==
    (/\ last.result = "Ok"
     /\ last.op \in {"set_num_rows", "set_filter", "reset_filter"}
     /\ view.num_rows >= 1
     /\ reader.total_line_numbers # None
     /\ ClaimTotal(reader, view) # None) =>
        view.rows_from
          <= ClaimBottom(ClaimTotal(reader, view)[1], view.num_rows)

\* The controls whose handler always passes through set_rows_from.
C12_OffsetControls ==
    {"ScrollPageDown", "ScrollPageUp", "ScrollTop", "ScrollBottom", "ScrollTo"}

\* C12 (amended): when a total is known, rows_from <= bottom_rows_from()
\* holds right after every successful call that passes through set_rows_from
\* (set_rows_from itself, the paging, top, bottom and scroll-to commands, and
\* a line scroll that moved the window).
C12_RowsFromWithinBottomAfterOffsetCall ==
    (/\ last.result = "Ok"
     /\ \/ last.op = "set_rows_from"
        \/ last.op = "handle_control" /\ last.control \in C12_OffsetControls
        \/ /\ last.op = "handle_control"
           /\ last.control \in {"ScrollDown", "ScrollUp"}
           /\ last.fetches = 1
     /\ ClaimTotal(reader, view) # None) =>
        view.rows_from
          <= ClaimBottom(ClaimTotal(reader, view)[1], view.num_rows)

\* C12 witness: set_rows_from was asked for an offset above the bottom and
\* left the view exactly at the bottom, above 0.
C12_Witness ==
    /\ last.op = "set_rows_from" /\ last.result = "Ok"
    /\ ClaimTotal(reader, view) # None
    /\ view.rows_from = ClaimBottom(ClaimTotal(reader, view)[1], view.num_rows)
    /\ view.rows_from > 0
    /\ last.n > view.rows_from

\* C13 (as claimed): with a row filter active, after a successful
\* set_rows_from, set_num_rows or handle_control that changed rows_from or
\* num_rows (and so reloaded), the filter's indices are the finder's match
\* window for the current [rows_from, rows_from + num_rows), and the rows are
\* the rows at those positions.
C13_FilterTracksWindow ==
    (/\ last.result = "Ok"
     /\ last.op \in {"set_rows_from", "set_num_rows", "handle_control"}
     /\ last.fetches = 1
     /\ view.filter # None) =>
        LET finder == last.finder
            hi == Min(view.rows_from + view.num_rows, Len(finder))
            window == SubSeq(finder, view.rows_from + 1, hi)
        IN  /\ view.filter[1].indices = window
            /\ Len(view.rows) = Len(window)
            /\ \A k \in 1..Len(window) :
                  view.rows[k].fields[1][1] = window[k]

\* C14 (as claimed): in every reachable state, right after construction
\* included, when rows is non-empty the row bound is the number of rows and
\* the row index is below it.
C14_RowBoundIsRowCount ==
    view.rows # <<>> =>
        /\ view.selection.row.bound = Len(view.rows)
        /\ view.selection.row.index # None =>
              view.selection.row.index[1] < Len(view.rows)

\* C15 (as claimed): in every reachable state every materialized row has
\* exactly the fetched row's fields at the current column filter's indices
\* (all of the reader's fields when no column filter is set), so that
\* headers() is as long as every materialized row.
C15_RowsProjectedThroughColumnsFilter ==
    LET n == Len(reader.headers)
        cols == IF view.columns_filter # None
                THEN view.columns_filter[1].indices
                ELSE [j \in 1..n |-> j - 1]
        shown == IF view.columns_filter # None
                 THEN view.columns_filter[1].filtered_headers
                 ELSE reader.headers
    IN  \A k \in 1..Len(view.rows) :
            /\ Len(view.rows[k].fields) = Len(shown)
            /\ \E i \in 0..(reader.num_data - 1) :
                  view.rows[k].fields = [c \in 1..Len(cols) |-> <<i, cols[c]>>]

\* C16 (as claimed): with no row filter, a known total T >= 1, a window of
\* at least one row and fetches that succeed, ScrollDown repeated from the
\* initial state never passes through a state with selected_offset() > T - 1
\* (stated for readers that know their exact line count).
C16_ScrollDownNeverPassesLastRow ==
    reader.total_line_numbers # None =>
        ClaimOffset(view) <= ClaimTotal(reader, view)[1] - 1

\* C17 (as claimed): for every window size, num_rows = 0 included, no
\* navigation command underflows or overflows: none panics, and the
\* `num_rows - 1` that ScrollDown evaluates for a selected row (the window
\* size is the same before and after the command) is never below 0.
C17_NoNavigationUnderflow ==
    last.op = "handle_control" =>
        /\ last.result # "Panic"
        /\ (last.control = "ScrollDown" /\ view.selection.row.index # None) =>
              view.num_rows - 1 >= 0

\* C18: set_num_rows(n) with n the current window size, set_rows_from(n)
\* whose clamped offset is the current rows_from, and reset_filter() with no
\* filter active return Ok, issue no fetch and leave every field of the view
\* unchanged; every other call of these three operations issues exactly one
\* reload.
C18_NoOpCallsDoNotFetch ==
    [][last'.op \in {"set_num_rows", "set_rows_from", "reset_filter"} =>
         LET total == ClaimTotal(reader, view)
             clamped == IF total # None
                        THEN Min(last'.n, ClaimBottom(total[1], view.num_rows))
                        ELSE last'.n
             noop == CASE last'.op = "set_num_rows" -> last'.n = view.num_rows
                       [] last'.op = "set_rows_from" -> clamped = view.rows_from
                       [] last'.op = "reset_filter" -> view.filter = None
         IN  IF noop
             THEN /\ last'.fetches = 0
                  /\ last'.result = "Ok"
                  /\ view' = view
             ELSE last'.fetches = 1]_vars

\* C18 witness: set_rows_from was asked for an offset above the current one,
\* the clamp brought it back to the current one, and no fetch was issued.
C18_Witness ==
    /\ last.op = "set_rows_from"
    /\ last.n > view.rows_from
    /\ last.fetches = 0
    /\ last.result = "Ok"

\* C19 (as claimed): a successful ScrollUp with a row selected at index 0
\* decreases rows_from by exactly 1 (leaving 0 at 0) and keeps the index 0;
\* at any other index it decreases the index by exactly 1, leaves rows_from
\* and rows unchanged and issues no fetch (stated for windows of at least one
\* row).
C19_ScrollUpMovesByOne ==
    [][(/\ last'.op = "handle_control" /\ last'.control = "ScrollUp"
        /\ last'.result = "Ok"
        /\ view.num_rows >= 1
        /\ view.selection.row.index # None) =>
          IF view.selection.row.index[1] = 0
          THEN /\ view'.rows_from = SatSub(view.rows_from, 1)
               /\ view'.selection.row.index = Some(0)
          ELSE /\ view'.selection.row.index
                    = Some(view.selection.row.index[1] - 1)
               /\ view'.rows_from = view.rows_from
               /\ view'.rows = view.rows
               /\ last'.fetches = 0]_vars

\* C19 (amended): a successful ScrollUp with a row selected at index 0 sets
\* rows_from to min(rows_from - 1 saturating at 0, bottom_rows_from()) when a
\* total is known, and to rows_from - 1 saturating at 0 when none is, and
\* keeps the index 0; at any other index it decreases the index by exactly 1,
\* leaves rows_from and rows unchanged and issues no fetch.
C19_ScrollUpMovesByOneClamped ==
    [][(/\ last'.op = "handle_control" /\ last'.control = "ScrollUp"
        /\ last'.result = "Ok"
        /\ view.selection.row.index # None) =>
          IF view.selection.row.index[1] = 0
          THEN LET total == ClaimTotal(reader, view)
                   up == SatSub(view.rows_from, 1)
               IN  /\ view'.rows_from =
                        IF total # None
                        THEN Min(up, ClaimBottom(total[1], view.num_rows))
                        ELSE up
                   /\ view'.selection.row.index = Some(0)
          ELSE /\ view'.selection.row.index
                    = Some(view.selection.row.index[1] - 1)
               /\ view'.rows_from = view.rows_from
               /\ view'.rows = view.rows
               /\ last'.fetches = 0]_vars

\* C19 witness: ScrollUp at index 0 moved the window up, to an offset that is
\* still above 0, and reloaded.
C19_Witness ==
    /\ last.op = "handle_control" /\ last.control = "ScrollUp"
    /\ last.result = "Ok"
    /\ last.fetches = 1
    /\ view.selection.row.index = Some(0)
    /\ view.rows_from >= 1

\* C20 (as claimed): after a successful ScrollPageDown rows_from is the old
\* rows_from + num_rows, clamped to bottom_rows_from() when a total is known;
\* after a successful ScrollPageUp it is the old rows_from - num_rows
\* saturating at 0; in both cases the row index is 0 afterwards and
\* selected_offset() is the new rows_from (stated for windows of at least one
\* row).
C20_PageScrollOffsets ==
    [][(/\ last'.op = "handle_control"
        /\ last'.control \in {"ScrollPageDown", "ScrollPageUp"}
        /\ last'.result = "Ok"
        /\ view.num_rows >= 1) =>
          LET total == ClaimTotal(reader, view)
              down == view.rows_from + view.num_rows
          IN  /\ view'.rows_from =
                   IF last'.control = "ScrollPageUp"
                   THEN SatSub(view.rows_from, view.num_rows)
                   ELSE IF total # None
                   THEN Min(down, ClaimBottom(total[1], view.num_rows))
                   ELSE down
              /\ view'.selection.row.index = Some(0)
              /\ ClaimOffset(view') = view'.rows_from]_vars

\* C20 (amended): the same, with ScrollPageUp's target clamped as well: it
\* is min(rows_from - num_rows saturating at 0, bottom_rows_from()) when a
\* total is known, and rows_from - num_rows saturating at 0 when none is.
C20_PageScrollOffsetsClamped ==
    [][(/\ last'.op = "handle_control"
        /\ last'.control \in {"ScrollPageDown", "ScrollPageUp"}
        /\ last'.result = "Ok") =>
          LET total == ClaimTotal(reader, view)
              target == IF last'.control = "ScrollPageUp"
                        THEN SatSub(view.rows_from, view.num_rows)
                        ELSE view.rows_from + view.num_rows
          IN  /\ view'.rows_from =
                   IF total # None
                   THEN Min(target, ClaimBottom(total[1], view.num_rows))
                   ELSE target
              /\ view'.selection.row.index = Some(0)
              /\ ClaimOffset(view') = view'.rows_from]_vars

\* C20 witness: a page scroll moved the window to an offset above 0 and
\* reloaded it with a row to show, and the first row of the window is the
\* selected one.
C20_Witness ==
    /\ last.op = "handle_control"
    /\ last.control \in {"ScrollPageDown", "ScrollPageUp"}
    /\ last.result = "Ok"
    /\ last.fetches = 1
    /\ view.num_rows >= 1
    /\ view.rows # <<>>
    /\ view.rows_from >= 1
    /\ view.selection.row.index = Some(0)

====
